---- MODULE Spec2Model ----
(***************************************************************************)
(* Model of pattern_network_visualizer.py: the compiled-in tables, the     *)
(* graph builder (create_pattern_network), the renderer                    *)
(* (visualize_pattern_network), the exporter (save_network_data) and the   *)
(* pipeline of main.                                                       *)
(*                                                                         *)
(* A Python dict is a sequence of <<key, value>> pairs with distinct keys, *)
(* in insertion order.  The networkx Graph is the pair of dicts it keeps:  *)
(* _node (node -> attribute dict) and _adj (node -> neighbour dict).       *)
(***************************************************************************)
EXTENDS Integers, Sequences, FiniteSets, TLC

\* ------------------------------------------------------------------ bounds
MaxEntries == 2      \* relationship entries (p, r) in an enumerated table
MaxCalls == 3        \* operations called by a library client

\* ------------------------------------------------------- compiled-in tables
CATEGORIES_0 ==
    << <<"Structural", "blue">>, <<"Process", "green">>,
       <<"Relationship", "red">>, <<"Resilience", "purple">> >>

PATTERN_RELATIONSHIPS_0 ==
    << <<"Fractal Self-Similarity", <<"Emergent Behavior", "Hierarchical Organization">> >>,
       <<"Emergent Behavior", <<"Fractal Self-Similarity", "Feedback Loops", "Self-Organization">> >>,
       <<"Feedback Loops", <<"Emergent Behavior", "Cyclical Patterns", "Adaptive Capacity">> >>,
       <<"Network Structure", <<"Fractal Self-Similarity", "Resource Distribution">> >>,
       <<"Hierarchical Organization", <<"Fractal Self-Similarity", "Network Structure">> >>,
       <<"Cyclical Patterns", <<"Feedback Loops", "Adaptation and Evolution">> >>,
       <<"Resource Distribution", <<"Network Structure", "Symbiosis and Mutualism">> >>,
       <<"Adaptation and Evolution", <<"Cyclical Patterns", "Feedback Loops">> >>,
       <<"Symbiosis and Mutualism", <<"Resource Distribution", "Adaptation and Evolution">> >>,
       <<"Boundaries and Interfaces", <<"Symbiosis and Mutualism", "Hierarchical Organization">> >> >>

PATTERN_CATEGORIES_0 ==
    << <<"Fractal Self-Similarity", "Structural">>,
       <<"Emergent Behavior", "Process">>,
       <<"Feedback Loops", "Process">>,
       <<"Network Structure", "Structural">>,
       <<"Hierarchical Organization", "Structural">>,
       <<"Cyclical Patterns", "Process">>,
       <<"Resource Distribution", "Relationship">>,
       <<"Adaptation and Evolution", "Process">>,
       <<"Symbiosis and Mutualism", "Relationship">>,
       <<"Boundaries and Interfaces", "Resilience">> >>

\* ------------------------------------------------------------ Python dicts
Keys(d) == {d[i][1] : i \in 1..Len(d)}

KeyList(d) == [i \in 1..Len(d) |-> d[i][1]]

DictHas(d, k) == k \in Keys(d)

DictGet(d, k) == d[CHOOSE i \in 1..Len(d) : d[i][1] = k][2]

DictGetDefault(d, k, default) == IF DictHas(d, k) THEN DictGet(d, k) ELSE default

\* d[k] = v: an existing key keeps its position, a new key is appended
DictSet(d, k, v) ==
    IF DictHas(d, k)
    THEN [i \in 1..Len(d) |-> IF d[i][1] = k THEN <<k, v>> ELSE d[i]]
    ELSE Append(d, <<k, v>>)

RECURSIVE DictUpdate(_, _)
DictUpdate(d, other) ==
    IF other = <<>> THEN d
    ELSE DictUpdate(DictSet(d, Head(other)[1], Head(other)[2]), Tail(other))

\* -------------------------------------------------------- networkx.Graph
EmptyDict == <<>>

Graph == [_node |-> EmptyDict, _adj |-> EmptyDict]

\* mutant: add_node called without the category attribute
AddNode_NoAttr(g, n, attr) ==
    IF ~DictHas(g._node, n)
    THEN [_node |-> DictSet(g._node, n, EmptyDict),
          _adj  |-> DictSet(g._adj, n, EmptyDict)]
    ELSE g

AddNode(g, n, attr) ==
    IF ~DictHas(g._node, n)
    THEN [_node |-> DictSet(g._node, n, DictUpdate(EmptyDict, attr)),
          _adj  |-> DictSet(g._adj, n, EmptyDict)]
    ELSE [g EXCEPT !._node = DictSet(g._node, n, DictUpdate(DictGet(g._node, n), attr))]

\* mutant: a directed graph, the edge is stored under u only
AddEdge_Directed(g, u, v) ==
    LET g1 == IF DictHas(g._node, u) THEN g ELSE AddNode(g, u, EmptyDict)
        g2 == IF DictHas(g1._node, v) THEN g1 ELSE AddNode(g1, v, EmptyDict)
        datadict == DictGetDefault(DictGet(g2._adj, u), v, EmptyDict)
    IN  [g2 EXCEPT !._adj = DictSet(g2._adj, u, DictSet(DictGet(g2._adj, u), v, datadict))]

AddEdge(g, u, v) ==
    LET g1 == IF DictHas(g._node, u) THEN g ELSE AddNode(g, u, EmptyDict)
        g2 == IF DictHas(g1._node, v) THEN g1 ELSE AddNode(g1, v, EmptyDict)
        datadict == DictGetDefault(DictGet(g2._adj, u), v, EmptyDict)
        adj1 == DictSet(g2._adj, u, DictSet(DictGet(g2._adj, u), v, datadict))
        adj2 == DictSet(adj1, v, DictSet(DictGet(adj1, v), u, datadict))
    IN  [g2 EXCEPT !._adj = adj2]

NumberOfNodes(g) == Len(g._node)

RECURSIVE SumDegree(_, _)
SumDegree(adj, i) ==
    IF i > Len(adj) THEN 0
    ELSE Len(adj[i][2]) + (IF DictHas(adj[i][2], adj[i][1]) THEN 1 ELSE 0)
         + SumDegree(adj, i + 1)

NumberOfEdges(g) == SumDegree(g._adj, 1) \div 2

\* mutant: the adjacency is listed without the visited check
RECURSIVE EdgesFrom_BothDirections(_, _, _, _)
EdgesFrom_BothDirections(adj, i, j, seen) ==
    IF i > Len(adj) THEN <<>>
    ELSE IF j > Len(adj[i][2]) THEN EdgesFrom_BothDirections(adj, i + 1, 1, seen)
    ELSE << <<adj[i][1], adj[i][2][j][1]>> >> \o EdgesFrom_BothDirections(adj, i, j + 1, seen)

\* G.edges(): every (n, nbr) of the adjacency whose nbr was not yet visited
RECURSIVE EdgesFrom(_, _, _, _)
EdgesFrom(adj, i, j, seen) ==
    IF i > Len(adj) THEN <<>>
    ELSE IF j > Len(adj[i][2]) THEN EdgesFrom(adj, i + 1, 1, seen \cup {adj[i][1]})
    ELSE LET nbr == adj[i][2][j][1]
             rest == EdgesFrom(adj, i, j + 1, seen)
         IN  IF nbr \notin seen THEN << <<adj[i][1], nbr>> >> \o rest ELSE rest

Edges(g) == EdgesFrom(g._adj, 1, 1, {})

\* G.nodes(data=True)
NodesData(g) == g._node

\* ------------------------------------------------------------ the program
VARIABLES
    CATEGORIES,             \* module global: category -> colour
    PATTERN_RELATIONSHIPS,  \* module global: pattern -> list of related patterns
    PATTERN_CATEGORIES,     \* module global: pattern -> category
    G,                      \* the graph the caller holds (NoGraph before a build)
    G_prev,                 \* the graph returned by the build before the last one
    dirExists,              \* docs/visualizations exists
    png_file,               \* pattern_network.png as written by this run
    json_file,              \* pattern_network.json as written by this run
    screen,                 \* what plt.show() displayed
    stdout,                 \* the lines printed
    raised,                 \* the last call ended in an uncaught exception
    op,                     \* the last operation called
    calls,                  \* number of operations a library client called
    pc                      \* position of main, or "client"

tables == <<CATEGORIES, PATTERN_RELATIONSHIPS, PATTERN_CATEGORIES>>

outputs == <<png_file, json_file, screen, stdout>>

vars == <<CATEGORIES, PATTERN_RELATIONSHIPS, PATTERN_CATEGORIES, G, G_prev,
          dirExists, png_file, json_file, screen, stdout, raised, op, calls, pc>>

NoGraph == [graph |-> "none"]

Absent == [file |-> "absent"]

Partial == [file |-> "partial"]

output_dir == "docs/visualizations"

png_path == "docs/visualizations/pattern_network.png"

json_path == "docs/visualizations/pattern_network.json"

None == "None"

\* ---------------------------------------------------------- graph builder
\* In the three loops the graph after an iteration is bound as a value (g1, by
\* the singleton set) before the loop goes on with it.
RECURSIVE AddNodes(_, _, _)
AddNodes(g, cats, i) ==
    IF i > Len(cats) THEN g
    ELSE CHOOSE r \in {AddNodes(g1, cats, i + 1) :
                          g1 \in {AddNode(g, cats[i][1], << <<"category", cats[i][2]>> >>)}} : TRUE

\* mutant: the related pattern is not checked against the categories
RECURSIVE AddRelated_Unfiltered(_, _, _, _, _)
AddRelated_Unfiltered(g, cats, pattern, related_patterns, j) ==
    IF j > Len(related_patterns) THEN g
    ELSE CHOOSE r \in {AddRelated_Unfiltered(g1, cats, pattern, related_patterns, j + 1) :
                          g1 \in {AddEdge(g, pattern, related_patterns[j])}} : TRUE

RECURSIVE AddRelated(_, _, _, _, _)
AddRelated(g, cats, pattern, related_patterns, j) ==
    IF j > Len(related_patterns) THEN g
    ELSE CHOOSE r \in {AddRelated(g1, cats, pattern, related_patterns, j + 1) :
                          g1 \in {IF DictHas(cats, related_patterns[j])
                                  THEN AddEdge(g, pattern, related_patterns[j])
                                  ELSE g}} : TRUE

\* mutant: the relationship key is not checked against the categories
RECURSIVE AddEdges_AnySource(_, _, _, _)
AddEdges_AnySource(g, cats, rels, i) ==
    IF i > Len(rels) THEN g
    ELSE CHOOSE r \in {AddEdges_AnySource(g1, cats, rels, i + 1) :
                          g1 \in {AddRelated(g, cats, rels[i][1], rels[i][2], 1)}} : TRUE

RECURSIVE AddEdges(_, _, _, _)
AddEdges(g, cats, rels, i) ==
    IF i > Len(rels) THEN g
    ELSE CHOOSE r \in {AddEdges(g1, cats, rels, i + 1) :
                          g1 \in {IF DictHas(cats, rels[i][1])
                                  THEN AddRelated(g, cats, rels[i][1], rels[i][2], 1)
                                  ELSE g}} : TRUE

BuildGraph(cats, rels) == AddEdges(AddNodes(Graph, cats, 1), cats, rels, 1)

\* mutant: the builder consumes the relationship table (popitem)
create_pattern_network_Consuming ==
    /\ G' = BuildGraph(PATTERN_CATEGORIES, PATTERN_RELATIONSHIPS)
    /\ G_prev' = G
    /\ raised' = FALSE
    /\ PATTERN_RELATIONSHIPS' =
          IF PATTERN_RELATIONSHIPS = <<>> THEN <<>>
          ELSE SubSeq(PATTERN_RELATIONSHIPS, 1, Len(PATTERN_RELATIONSHIPS) - 1)
    /\ UNCHANGED <<CATEGORIES, PATTERN_CATEGORIES, dirExists, outputs>>

create_pattern_network ==
    /\ G' = BuildGraph(PATTERN_CATEGORIES, PATTERN_RELATIONSHIPS)
    /\ G_prev' = G
    /\ raised' = FALSE
    /\ UNCHANGED <<tables, dirExists, outputs>>

\* --------------------------------------------------------------- renderer
NodeList(g, category) ==
    SelectSeq(KeyList(NodesData(g)),
              LAMBDA node : DictGetDefault(DictGet(NodesData(g), node), "category", None) = category)

RECURSIVE DrawNodes(_, _, _)
DrawNodes(g, colors, i) ==
    IF i > Len(colors) THEN <<>>
    ELSE << [nodelist |-> NodeList(g, colors[i][1]), node_color |-> colors[i][2],
             label |-> colors[i][1]] >> \o DrawNodes(g, colors, i + 1)

Figure(g, colors) ==
    [nodes  |-> DrawNodes(g, colors, 1),
     edges  |-> Edges(g),
     labels |-> KeyList(NodesData(g)),
     title  |-> "Pattern Relationship Network"]

VisualizeFaults == {"none", "layout", "savefig"}

\* mutant: the renderer stores the layout in the node attributes of the graph
visualize_pattern_network_StoresLayout(g, output_file, fault) ==
    /\ IF fault = "layout"
       THEN raised' = TRUE /\ UNCHANGED outputs
       ELSE IF output_file # None
       THEN IF fault = "savefig" \/ ~dirExists
            THEN /\ raised' = TRUE
                 /\ png_file' \in IF dirExists THEN {png_file, Partial} ELSE {png_file}
                 /\ UNCHANGED <<json_file, screen, stdout>>
            ELSE /\ raised' = FALSE
                 /\ png_file' = Figure(g, CATEGORIES)
                 /\ stdout' = Append(stdout, <<"Network visualization saved to", output_file>>)
                 /\ UNCHANGED <<json_file, screen>>
       ELSE /\ fault = "none"
            /\ raised' = FALSE
            /\ screen' = Figure(g, CATEGORIES)
            /\ UNCHANGED <<png_file, json_file, stdout>>
    /\ G' = IF fault = "layout" THEN G
            ELSE [G EXCEPT !._node =
                     [i \in 1..Len(G._node) |->
                         <<G._node[i][1], DictSet(G._node[i][2], "pos", i)>>]]
    /\ UNCHANGED <<tables, G_prev, dirExists>>

visualize_pattern_network(g, output_file, fault) ==
    /\ IF fault = "layout"
       THEN raised' = TRUE /\ UNCHANGED outputs
       ELSE IF output_file # None
       THEN IF fault = "savefig" \/ ~dirExists
            THEN /\ raised' = TRUE
                 /\ png_file' \in IF dirExists THEN {png_file, Partial} ELSE {png_file}
                 /\ UNCHANGED <<json_file, screen, stdout>>
            ELSE /\ raised' = FALSE
                 /\ png_file' = Figure(g, CATEGORIES)
                 /\ stdout' = Append(stdout, <<"Network visualization saved to", output_file>>)
                 /\ UNCHANGED <<json_file, screen>>
       ELSE /\ fault = "none"
            /\ raised' = FALSE
            /\ screen' = Figure(g, CATEGORIES)
            /\ UNCHANGED <<png_file, json_file, stdout>>
    /\ UNCHANGED <<tables, G, G_prev, dirExists>>

\* --------------------------------------------------------------- exporter
RECURSIVE NodeEntries(_, _)
NodeEntries(nd, i) ==
    IF i > Len(nd) THEN <<>>
    ELSE << [id |-> nd[i][1], category |-> DictGetDefault(nd[i][2], "category", "Unknown")] >>
         \o NodeEntries(nd, i + 1)

LinkEntries(es) == [i \in 1..Len(es) |-> [source |-> es[i][1], target |-> es[i][2]]]

NetworkData(g) == [nodes |-> NodeEntries(NodesData(g), 1), links |-> LinkEntries(Edges(g))]

SaveFaults == {"none", "open", "dump"}

save_network_data(g, output_file, fault) ==
    /\ IF fault = "open" \/ ~dirExists
       THEN raised' = TRUE /\ UNCHANGED outputs
       ELSE IF fault = "dump"
       THEN raised' = TRUE /\ json_file' = Partial /\ UNCHANGED <<png_file, screen, stdout>>
       ELSE /\ raised' = FALSE
            /\ json_file' = NetworkData(g)
            /\ stdout' = Append(stdout, <<"Network data saved to", output_file>>)
            /\ UNCHANGED <<png_file, screen>>
    /\ UNCHANGED <<tables, G, G_prev, dirExists>>

\* ------------------------------------------------------------------- main
MkdirFaults == {"none", "mkdir"}

MainMkdir ==
    /\ pc = "mkdir"
    /\ \E fault \in MkdirFaults :
          /\ raised' = (fault = "mkdir")
          /\ dirExists' = IF fault = "mkdir" THEN dirExists ELSE TRUE
    /\ pc' = IF raised' THEN "failed" ELSE "create"
    /\ op' = "mkdir"
    /\ UNCHANGED <<tables, G, G_prev, outputs, calls>>

\* mutant: main goes from the build straight to the export
MainCreate_SkipRender ==
    /\ pc = "create"
    /\ create_pattern_network
    /\ pc' = "save"
    /\ op' = "create"
    /\ UNCHANGED calls

MainCreate ==
    /\ pc = "create"
    /\ create_pattern_network
    /\ pc' = "visualize"
    /\ op' = "create"
    /\ UNCHANGED calls

\* mutant: main swallows the exception of the renderer and carries on
MainVisualize_Swallow ==
    /\ pc = "visualize"
    /\ \E fault \in VisualizeFaults : visualize_pattern_network(G, png_path, fault)
    /\ pc' = "save"
    /\ op' = "visualize"
    /\ UNCHANGED calls

MainVisualize ==
    /\ pc = "visualize"
    /\ \E fault \in VisualizeFaults : visualize_pattern_network(G, png_path, fault)
    /\ pc' = IF raised' THEN "failed" ELSE "save"
    /\ op' = "visualize"
    /\ UNCHANGED calls

MainSave ==
    /\ pc = "save"
    /\ \E fault \in SaveFaults : save_network_data(G, json_path, fault)
    /\ pc' = IF raised' THEN "failed" ELSE "summary"
    /\ op' = "save"
    /\ UNCHANGED calls

MainSummary ==
    /\ pc = "summary"
    /\ stdout' = stdout \o << <<"Network has", NumberOfNodes(G), NumberOfEdges(G)>>,
                              <<"Visualizations saved to", output_dir>> >>
    /\ pc' = "done"
    /\ op' = "summary"
    /\ UNCHANGED <<tables, G, G_prev, dirExists, png_file, json_file, screen, raised, calls>>

MainNext == MainMkdir \/ MainCreate \/ MainVisualize \/ MainSave \/ MainSummary

\* ------------------------------------------- a client calling the functions
ClientCreate ==
    /\ pc = "client" /\ calls < MaxCalls
    /\ create_pattern_network
    /\ op' = "create"
    /\ calls' = calls + 1
    /\ UNCHANGED pc

ClientVisualize ==
    /\ pc = "client" /\ calls < MaxCalls /\ G # NoGraph
    /\ \E output_file \in {None, png_path} : \E fault \in VisualizeFaults :
          visualize_pattern_network(G, output_file, fault)
    /\ op' = "visualize"
    /\ calls' = calls + 1
    /\ pc' = IF raised' THEN "failed" ELSE "client"

ClientSave ==
    /\ pc = "client" /\ calls < MaxCalls /\ G # NoGraph
    /\ \E fault \in SaveFaults : save_network_data(G, json_path, fault)
    /\ op' = "save"
    /\ calls' = calls + 1
    /\ pc' = IF raised' THEN "failed" ELSE "client"

Next == ClientCreate \/ ClientVisualize \/ ClientSave

\* ---------------------------------------------------------- initial states
Names == <<"A", "B", "Z">>

Labels == {"Structural", "Process"}

RECURSIVE ListsUpTo(_)
ListsUpTo(n) ==
    IF n = 0 THEN {<<>>}
    ELSE LET shorter == ListsUpTo(n - 1)
         IN  shorter \cup {Append(l, Names[i]) : l \in shorter, i \in 1..Len(Names)}

\* the dict literal with the keys of f, written in the order of Names
DictOf(f) ==
    LET keys == SelectSeq(Names, LAMBDA k : k \in DOMAIN f)
    IN  [i \in 1..Len(keys) |-> <<keys[i], f[keys[i]]>>]

RECURSIVE Entries(_, _)
Entries(rels, i) == IF i > Len(rels) THEN 0 ELSE Len(rels[i][2]) + Entries(rels, i + 1)

NameSet == {Names[i] : i \in 1..Len(Names)}

\* every labelling with the two labels, up to exchanging them: the first
\* pattern of a table is "Structural"
CategoryTables ==
    {c \in {DictOf(f) : f \in UNION {[S -> Labels] : S \in SUBSET NameSet}} :
        c # <<>> => c[1][2] = "Structural"}

RelationshipTables ==
    {r \in {DictOf(f) : f \in UNION {[S -> ListsUpTo(MaxEntries) \ {<<>>}] : S \in SUBSET NameSet}} :
        Entries(r, 1) <= MaxEntries}

InitTables ==
    /\ CATEGORIES = CATEGORIES_0
    /\ \/ /\ PATTERN_CATEGORIES = PATTERN_CATEGORIES_0
          /\ PATTERN_RELATIONSHIPS = PATTERN_RELATIONSHIPS_0
       \/ /\ PATTERN_CATEGORIES \in CategoryTables
          /\ PATTERN_RELATIONSHIPS \in RelationshipTables

InitRun ==
    /\ InitTables
    /\ G = NoGraph
    /\ G_prev = NoGraph
    /\ dirExists \in BOOLEAN
    /\ png_file = Absent
    /\ json_file = Absent
    /\ screen = Absent
    /\ stdout = <<>>
    /\ raised = FALSE
    /\ op = "start"
    /\ calls = 0

Init == InitRun /\ pc = "client"

MainInit == InitRun /\ pc = "mkdir"

Spec == Init /\ [][Next]_vars

MainSpec == MainInit /\ [][MainNext]_vars

\* ------------------------------------------------ vocabulary of the claims
Built == G # NoGraph

NodeSet(g) == Keys(g._node)

CategoryOf(g, n) == DictGetDefault(DictGet(g._node, n), "category", None)

\* the undirected edges of g: {u, v}, or {u} for a self-loop
EdgeSet(g) ==
    {{g._adj[i][1], g._adj[i][2][j][1]} : <<i, j>> \in
        {ij \in (1..Len(g._adj)) \X (1..Len(g._adj)) : ij[2] <= Len(g._adj[ij[1]][2])}}

HasEdge(g, u, v) ==
    /\ DictHas(g._adj, u) /\ DictHas(DictGet(g._adj, u), v)
    /\ DictHas(g._adj, v) /\ DictHas(DictGet(g._adj, v), u)

\* the relationship entries (p, r): r is listed under key p
EntryIndex(rels) == UNION {{<<i, j>> : j \in 1..Len(rels[i][2])} : i \in 1..Len(rels)}

RelEntries(rels) == {<<rels[ij[1]][1], rels[ij[1]][2][ij[2]]>> : ij \in EntryIndex(rels)}

Categorized(e) == DictHas(PATTERN_CATEGORIES, e[1]) /\ DictHas(PATTERN_CATEGORIES, e[2])

Saved == op = "save" /\ ~raised

\* ------------------------------------------------------------------ claims

\* C1: the node set of the built graph is exactly the key set of the category
\* mapping; every categorized pattern is a node once, carrying its declared
\* category; a name appearing only in the relationship mapping is no node.
C1_NodesAreCategorized ==
    Built =>
        /\ NodeSet(G) = Keys(PATTERN_CATEGORIES)
        /\ NumberOfNodes(G) = Cardinality(Keys(PATTERN_CATEGORIES))
        /\ Keys(G._adj) = Keys(PATTERN_CATEGORIES)
        /\ \A p \in Keys(PATTERN_CATEGORIES) :
              /\ Cardinality({i \in 1..Len(G._node) : G._node[i][1] = p}) = 1
              /\ CategoryOf(G, p) = DictGet(PATTERN_CATEGORIES, p)
        /\ \A e \in RelEntries(PATTERN_RELATIONSHIPS) : \A k \in 1..2 :
              ~DictHas(PATTERN_CATEGORIES, e[k]) => e[k] \notin NodeSet(G)

C1_Witness ==
    /\ Built
    /\ Cardinality(NodeSet(G)) >= 2
    /\ \E e \in RelEntries(PATTERN_RELATIONSHIPS) :
          DictHas(PATTERN_CATEGORIES, e[1]) /\ ~DictHas(PATTERN_CATEGORIES, e[2])

\* C2: every relationship entry (p, r) with p and r both categorized is an
\* undirected edge {p, r} of the built graph, and the graph lists it exactly
\* once however often and in whichever direction it was declared.
C2_DeclaredPairsAreSingleEdges ==
    Built =>
        \A es \in {Edges(G)} : \A e \in RelEntries(PATTERN_RELATIONSHIPS) :
            Categorized(e) =>
                /\ HasEdge(G, e[1], e[2])
                /\ Cardinality({i \in 1..Len(es) : {es[i][1], es[i][2]} = {e[1], e[2]}}) = 1
                /\ Cardinality({j \in 1..Len(DictGet(G._adj, e[1])) :
                       DictGet(G._adj, e[1])[j][1] = e[2]}) = 1

C2_Witness ==
    /\ Built
    /\ \E e \in RelEntries(PATTERN_RELATIONSHIPS) :
          /\ Categorized(e) /\ e[1] # e[2]
          /\ <<e[2], e[1]>> \in RelEntries(PATTERN_RELATIONSHIPS)
    /\ NumberOfNodes(G) = 2
    /\ NumberOfEdges(G) = 1

\* C3: both endpoints of every edge of the built graph are keys of the
\* category mapping; an entry whose key or related name is uncategorized adds
\* no edge and no node, and the build returns a graph without raising.
C3_EdgesOnlyBetweenCategorized ==
    /\ Built => \A es \in {Edges(G)} : \A edges \in {EdgeSet(G)} :
        /\ \A e \in edges : e \subseteq Keys(PATTERN_CATEGORIES)
        /\ \A i \in 1..Len(es) :
              /\ DictHas(PATTERN_CATEGORIES, es[i][1])
              /\ DictHas(PATTERN_CATEGORIES, es[i][2])
        /\ \A e \in RelEntries(PATTERN_RELATIONSHIPS) :
              ~Categorized(e) =>
                  /\ ~HasEdge(G, e[1], e[2])
                  /\ {e[1], e[2]} \notin edges
                  /\ NodeSet(G) \subseteq Keys(PATTERN_CATEGORIES)
        /\ edges \subseteq
              {{e[1], e[2]} : e \in {x \in RelEntries(PATTERN_RELATIONSHIPS) : Categorized(x)}}
    /\ op = "create" => Built /\ ~raised

C3_Witness ==
    /\ op = "create" /\ Built
    /\ \E e \in RelEntries(PATTERN_RELATIONSHIPS) :
          DictHas(PATTERN_CATEGORIES, e[1]) /\ ~DictHas(PATTERN_CATEGORIES, e[2])
    /\ \E e \in RelEntries(PATTERN_RELATIONSHIPS) :
          ~DictHas(PATTERN_CATEGORIES, e[1]) /\ DictHas(PATTERN_CATEGORIES, e[2])
    /\ NumberOfEdges(G) = 0

\* C4: the JSON document written by save_network_data has as many nodes
\* entries as the graph has nodes and as many links entries as it has edges;
\* every link is an edge of the graph and every undirected edge is one link.
C4_ExportMatchesGraph ==
    Saved => \A edges \in {EdgeSet(G)} :
        /\ Len(json_file.nodes) = NumberOfNodes(G)
        /\ Len(json_file.links) = NumberOfEdges(G)
        /\ Len(json_file.links) = Cardinality(edges)
        /\ \A i \in 1..Len(json_file.links) :
              HasEdge(G, json_file.links[i].source, json_file.links[i].target)
        /\ \A e \in edges :
              Cardinality({i \in 1..Len(json_file.links) :
                  {json_file.links[i].source, json_file.links[i].target} = e}) = 1

C4_Witness ==
    /\ Saved
    /\ Len(json_file.links) >= 1
    /\ \E i \in 1..Len(json_file.links) :
          /\ json_file.links[i].source # json_file.links[i].target
          /\ <<json_file.links[i].target, json_file.links[i].source>>
                \in RelEntries(PATTERN_RELATIONSHIPS)
          /\ <<json_file.links[i].source, json_file.links[i].target>>
                \in RelEntries(PATTERN_RELATIONSHIPS)

Written(f) == f # Absent /\ f # Partial

SummaryPrinted == \E i \in 1..Len(stdout) : stdout[i][1] = "Network has"

\* C5: main ensures the output directory, then builds the graph, then writes
\* the image, then writes the JSON, then prints the summary, each step after
\* the previous one has completed: no file is touched before the directory
\* exists and the summary follows both complete files.
C5_PipelineOrder ==
    /\ pc = "mkdir" => ~Built /\ png_file = Absent /\ json_file = Absent /\ stdout = <<>>
    /\ Built => dirExists /\ pc \notin {"mkdir", "create"}
    /\ png_file # Absent => dirExists /\ Built /\ pc \notin {"mkdir", "create", "visualize"}
    /\ json_file # Absent =>
          /\ Written(png_file)
          /\ png_file = Figure(G, CATEGORIES)
          /\ stdout[1] = <<"Network visualization saved to", png_path>>
          /\ pc \in {"summary", "done", "failed"}
    /\ SummaryPrinted =>
          /\ Written(png_file) /\ Written(json_file)
          /\ json_file = NetworkData(G)
          /\ pc = "done"
          /\ Len(stdout) = 4
          /\ stdout[2] = <<"Network data saved to", json_path>>
          /\ stdout[3] = <<"Network has", NumberOfNodes(G), NumberOfEdges(G)>>
          /\ stdout[4] = <<"Visualizations saved to", output_dir>>
    /\ pc = "done" => SummaryPrinted

C5_Witness == pc = "done" /\ SummaryPrinted /\ NumberOfEdges(G) >= 1

\* C6: a fault in a step of main is never caught or retried: the run is then
\* failed for good and no later step has run; after a failed render the JSON
\* is absent and no summary is printed, after a failed export no summary is
\* printed; the run is done only if no step faulted.
C6_FaultsTerminate ==
    /\ [](raised <=> pc = "failed")
    /\ [](pc = "failed" =>
            /\ ~SummaryPrinted
            /\ op \in {"mkdir", "visualize", "save"}
            /\ op = "mkdir" => ~Built /\ png_file = Absent /\ json_file = Absent /\ stdout = <<>>
            /\ op = "visualize" => ~Written(png_file) /\ json_file = Absent /\ stdout = <<>>
            /\ op = "save" => ~Written(json_file) /\ Len(stdout) = 1)
    /\ [](pc = "done" => ~raised /\ Written(png_file) /\ Written(json_file))
    /\ [][pc = "failed" => pc' = "failed" /\ UNCHANGED vars]_vars
    /\ [][pc' = "done" => ~raised /\ ~raised']_vars

C6_Witness == pc = "failed" /\ op = "visualize" /\ png_file = Partial /\ Built

\* C7: two calls of create_pattern_network on the same tables, whatever is
\* rendered or exported in between, return graphs with the same node set,
\* the same node categories and the same edge set.
C7_BuildIsRepeatable ==
    (Built /\ G_prev # NoGraph) =>
        /\ NodeSet(G) = NodeSet(G_prev)
        /\ \A n \in NodeSet(G) : CategoryOf(G, n) = CategoryOf(G_prev, n)
        /\ EdgeSet(G) = EdgeSet(G_prev)
        /\ G = G_prev

C7_Witness ==
    /\ G_prev # NoGraph /\ op = "create"
    /\ Written(json_file) \/ Written(png_file) \/ Written(screen)
    /\ NumberOfEdges(G) >= 1

\* C8: no operation changes the category mapping, the relationship mapping
\* or the category-to-colour mapping, and visualize_pattern_network and
\* save_network_data leave the graph they are given as it was.
C8_TablesAndGraphUntouched ==
    /\ [](CATEGORIES = CATEGORIES_0)
    /\ [][/\ UNCHANGED tables
          /\ (calls' # calls /\ op' \in {"visualize", "save"}) => G' = G /\ G_prev' = G_prev]_vars

C8_Witness ==
    /\ Written(json_file) /\ (Written(png_file) \/ Written(screen))
    /\ NumberOfEdges(G) >= 1

\* C9: the export of a built graph has, per node, an object whose id is the
\* pattern name and whose category is the label the category mapping
\* declares for it; the sentinel "Unknown" is never exported.
C9_ExportedCategories ==
    Saved =>
        /\ Len(json_file.nodes) = Len(PATTERN_CATEGORIES)
        /\ \A i \in 1..Len(json_file.nodes) :
              /\ DOMAIN json_file.nodes[i] = {"id", "category"}
              /\ DictHas(PATTERN_CATEGORIES, json_file.nodes[i].id)
              /\ json_file.nodes[i].category = DictGet(PATTERN_CATEGORIES, json_file.nodes[i].id)
              /\ json_file.nodes[i].category # "Unknown"
        /\ {json_file.nodes[i].id : i \in 1..Len(json_file.nodes)} = Keys(PATTERN_CATEGORIES)

C9_Witness ==
    /\ Saved
    /\ \E i, j \in 1..Len(json_file.nodes) :
          json_file.nodes[i].category # json_file.nodes[j].category

CompiledIn ==
    /\ PATTERN_CATEGORIES = PATTERN_CATEGORIES_0
    /\ PATTERN_RELATIONSHIPS = PATTERN_RELATIONSHIPS_0

\* C10: on the compiled-in tables the built graph has 10 nodes and 13 edges,
\* the counts main reports; of the 22 relationship entries exactly the two
\* with an uncategorized target are dropped and the other 20 make 13 pairs.
C10_CompiledInCounts ==
    (CompiledIn /\ Built) =>
        /\ NumberOfNodes(G) = 10
        /\ NumberOfEdges(G) = 13
        /\ Len(Edges(G)) = 13
        /\ Cardinality(EdgeSet(G)) = 13
        /\ Entries(PATTERN_RELATIONSHIPS, 1) = 22
        /\ {e \in RelEntries(PATTERN_RELATIONSHIPS) : ~HasEdge(G, e[1], e[2])}
              = {<<"Emergent Behavior", "Self-Organization">>,
                 <<"Feedback Loops", "Adaptive Capacity">>}
        /\ Cardinality({e \in RelEntries(PATTERN_RELATIONSHIPS) : HasEdge(G, e[1], e[2])}) = 20
        /\ pc = "done" => stdout[3] = <<"Network has", 10, 13>>

C10_Witness == CompiledIn /\ pc = "done" /\ SummaryPrinted

====
